---- MODULE Spec2Model ----
(***************************************************************************)
(* Model of us::ServiceTrackerCustomizer                                   *)
(* (core/include/usServiceTrackerCustomizer.h).                            *)
(*                                                                         *)
(* The header selects, for a pair (S, T) of a service type and a tracked   *)
(* type, one of four partial/explicit specializations of the class         *)
(* template ServiceTrackerCustomizer.  Each specialization carries a       *)
(* TypeTraits bundle (IsValid, DefaultValue, Dispose,                      *)
(* ConvertToTrackedType) and declares the three pure virtual callbacks.    *)
(*                                                                         *)
(* Types are modelled by their static shape, values by small finite        *)
(* domains.  A pointer value is a handle in 0..NumHandles, 0 being         *)
(* nullptr.  An InterfaceMap is a function from a set of interface ids to  *)
(* non-null handles.                                                       *)
(***************************************************************************)
EXTENDS Integers, FiniteSets, TLC

VARIABLES pair, bundle, x, disposed, result,
          status, tracked, accepted, removed, removedArg, lastEvent

vars == <<pair, bundle, x, disposed, result,
          status, tracked, accepted, removed, removedArg, lastEvent>>

bundleVars == <<x, disposed, result>>
trackerVars == <<status, tracked, accepted, removed, removedArg, lastEvent>>

-----------------------------------------------------------------------------
(* Bounds of the model *)

NumHandles == 2
NumInterfaces == 2
MaxDispose == 2
MaxEvents == 5

-----------------------------------------------------------------------------
(* The universe of types the template is instantiated with *)

\* Service types S; "void" is the untyped marker.
ServiceTypes == {"void", "Foo", "Bar"}

\* T = X*
Ptr(X) == [kind |-> "ptr", to |-> X]

\* T = a class or fundamental type named n
Val(n) == [kind |-> "val", to |-> n]

\* bool; a shared_ptr-like wrapper (explicit operator bool, empty by
\* default); a stream-like status object (explicit operator bool that is
\* !fail(), good by default); a struct with no conversion to bool; a type
\* convertible to bool that has no default constructor.
ValueTypeNames == {"bool", "SharedPtr", "Stream", "Plain", "NoDefault"}

TrackedTypes == {Ptr(X) : X \in ServiceTypes} \cup {Val(n) : n \in ValueTypeNames}

NullHandle == 0
Handles == 0..NumHandles
NonNullHandles == 1..NumHandles
InterfaceIds == 1..NumInterfaces

InterfaceMaps == UNION {[D -> NonNullHandles] : D \in SUBSET InterfaceIds}

EmptyMap == [i \in {} |-> NullHandle]

\* The values of a value type T: bool is 0/1, a SharedPtr holds a handle,
\* a Stream holds its failbit.
ValuesOf(T) ==
  CASE T.to = "SharedPtr" -> Handles
    [] OTHER -> 0..1

-----------------------------------------------------------------------------
(* The standard type traits the enable_if conditions use *)

is_pointer(T) == T.kind = "ptr"

is_same(A, B) == A = B

\* std::is_constructible<T>: T()
is_constructible(T) ==
  \/ T.kind = "ptr"
  \/ T.to \in {"bool", "SharedPtr", "Stream", "Plain"}

\* std::is_convertible<T,bool>: implicit conversion
is_convertible_bool(T) ==
  \/ T.kind = "ptr"
  \/ T.to \in {"bool", "NoDefault"}

\* std::is_constructible<bool,T>: bool(t), explicit conversions included
is_constructible_bool(T) ==
  \/ T.kind = "ptr"
  \/ T.to \in {"bool", "SharedPtr", "Stream", "NoDefault"}

\* static_cast<bool>(t) of a value type
ToBool(T, t) ==
  CASE T.to = "Stream" -> t = 0
    [] OTHER -> t # 0

\* T() of a value type
DefaultConstruct(T) == 0

\* detail::ServiceArg<S>::type: S*, and const InterfaceMap& for S = void
ServiceArg(S) == IF S = "void" THEN Val("InterfaceMap") ELSE Ptr(S)

\* The values an argument of static type A ranges over
ArgValues(A) ==
  IF A.kind = "ptr" THEN Handles
  ELSE IF A.to = "InterfaceMap" THEN InterfaceMaps
  ELSE ValuesOf(A)

-----------------------------------------------------------------------------
(* Selection of the specialization *)

Variants == {"a", "b", "c", "d"}

\* MatchesA with the !is_same<S*,T> conjunct left out
MatchesA_AnyPointer(S, T) == is_pointer(T)

\* <S, T, enable_if<is_pointer<T> && !is_same<S*,T>>>
MatchesA(S, T) == is_pointer(T) /\ ~is_same(Ptr(S), T)

\* <S, S*, void>
MatchesB(S, T) == T = Ptr(S)

\* MatchesC with the !is_pointer<T> conjunct left out
MatchesC_PointersToo(S, T) ==
  /\ is_constructible(T)
  /\ (is_convertible_bool(T) \/ is_constructible_bool(T))

\* <S, T, enable_if<!is_pointer<T> && is_constructible<T> && (...)>>
MatchesC(S, T) ==
  /\ ~is_pointer(T)
  /\ is_constructible(T)
  /\ (is_convertible_bool(T) \/ is_constructible_bool(T))

\* MatchesD written for every pointer T instead of void* alone
MatchesD_AnyPointer(S, T) == S = "void" /\ is_pointer(T)

\* template<> <void, void*, void>
MatchesD(S, T) == S = "void" /\ T = Ptr("void")

Matches(v, S, T) ==
  CASE v = "a" -> MatchesA(S, T)
    [] v = "b" -> MatchesB(S, T)
    [] v = "c" -> MatchesC(S, T)
    [] v = "d" -> MatchesD(S, T)

\* The definitions whose template arguments match (S, T, void)
Matching(S, T) == {v \in Variants : Matches(v, S, T)}

\* Instantiation of ServiceTrackerCustomizer<S, T>: an explicit
\* specialization is used when it matches; otherwise the one matching
\* partial specialization; with none matching the primary template, whose
\* body is empty; with several partial specializations matching the
\* instantiation is ambiguous and the program ill-formed (the partial
\* ordering of [temp.class.order] is not modelled: no two of (a), (b), (c)
\* match the same pair).
Resolve(S, T) ==
  IF MatchesD(S, T) THEN "d"
  ELSE LET m == Matching(S, T) \ {"d"}
       IN  IF m = {} THEN "primary"
           ELSE IF Cardinality(m) = 1 THEN CHOOSE v \in m : TRUE
           ELSE "ill-formed"

\* TypeTraits::TrackedReturnType
TrackedReturnType(b, T) == IF b = "d" THEN Val("InterfaceMap") ELSE T

\* The parameter type of TypeTraits::ConvertToTrackedType
ConvertArgType(b, S, T) ==
  CASE b = "b" -> T
    [] b = "d" -> Val("InterfaceMap")
    [] OTHER -> ServiceArg(S)

-----------------------------------------------------------------------------
(* The TypeTraits bundles.  A call returns Ret(v) or raises. *)

Ret(v) == [raised |-> FALSE, val |-> v]
Raise == [raised |-> TRUE, val |-> "std::runtime_error"]

\* variant (a): distinct pointer
IsValidA(t) == t # NullHandle
DefaultValueA == NullHandle
DisposeA(t) == NullHandle
ConvertToTrackedTypeA(s) == Raise

\* variant (b): T = S*
\* IsValidB accepting every handle
IsValidB_Always(t) == TRUE

IsValidB(t) == t # NullHandle
DefaultValueB == NullHandle
DisposeB(t) == NullHandle
ConvertToTrackedTypeB(s) == Ret(s)

\* variant (c): value type testable as bool
IsValidC(T, t) == ToBool(T, t)
DefaultValueC(T) == DefaultConstruct(T)
DisposeC(t) == t
\* ConvertToTrackedTypeC returning a value instead of throwing
ConvertToTrackedTypeC_ReturnsDefault(s) == Ret(0)

ConvertToTrackedTypeC(s) == Raise

\* variant (d): S = void, tracked value is the InterfaceMap
IsValidD(t) == DOMAIN t # {}
DefaultValueD == EmptyMap
DisposeD(t) == EmptyMap
\* ConvertToTrackedTypeD returning a fresh map instead of its argument
ConvertToTrackedTypeD_ReturnsEmpty(im) == Ret(EmptyMap)

ConvertToTrackedTypeD(im) == Ret(im)

IsValid(b, T, t) ==
  CASE b = "a" -> IsValidA(t)
    [] b = "b" -> IsValidB(t)
    [] b = "c" -> IsValidC(T, t)
    [] b = "d" -> IsValidD(t)

DefaultValue(b, T) ==
  CASE b = "a" -> DefaultValueA
    [] b = "b" -> DefaultValueB
    [] b = "c" -> DefaultValueC(T)
    [] b = "d" -> DefaultValueD

Dispose(b, t) ==
  CASE b = "a" -> DisposeA(t)
    [] b = "b" -> DisposeB(t)
    [] b = "c" -> DisposeC(t)
    [] b = "d" -> DisposeD(t)

ConvertToTrackedType(b, s) ==
  CASE b = "a" -> ConvertToTrackedTypeA(s)
    [] b = "b" -> ConvertToTrackedTypeB(s)
    [] b = "c" -> ConvertToTrackedTypeC(s)
    [] b = "d" -> ConvertToTrackedTypeD(s)

-----------------------------------------------------------------------------
(* State *)

NoResult == [op |-> "none", raised |-> FALSE]

\* pair     the (S, T) the template is instantiated with
\* bundle   the definition the instantiation is bound to
\* x        a variable of type TrackedReturnType the traits are applied to
\* disposed number of Dispose(x) calls since x was last assigned
\* result   the last TypeTraits call and its outcome
Init ==
  /\ pair \in [S : ServiceTypes, T : TrackedTypes]
  /\ bundle = "unresolved"
  /\ x \in ArgValues(TrackedReturnType(Resolve(pair.S, pair.T), pair.T))
  /\ disposed = 0
  /\ result = NoResult
  /\ status = "Untracked"
  /\ tracked = "none"
  /\ accepted = 0
  /\ removed = 0
  /\ removedArg = "none"
  /\ lastEvent = [n |-> 0, ev |-> "none", val |-> "none"]

Bound == bundle \in Variants

\* Naming ServiceTrackerCustomizer<S,T> instantiates the template
Instantiate ==
  /\ bundle' = Resolve(pair.S, pair.T)
  /\ UNCHANGED <<pair, bundleVars, trackerVars>>

CallIsValid ==
  /\ Bound
  /\ result' = [op |-> "IsValid", raised |-> FALSE, arg |-> x,
                val |-> IsValid(bundle, pair.T, x)]
  /\ UNCHANGED <<pair, bundle, x, disposed, trackerVars>>

\* x = TypeTraits::DefaultValue()
CallDefaultValue ==
  /\ Bound
  /\ x' = DefaultValue(bundle, pair.T)
  /\ disposed' = 0
  /\ result' = [op |-> "DefaultValue", raised |-> FALSE, val |-> x']
  /\ UNCHANGED <<pair, bundle, trackerVars>>

\* TypeTraits::Dispose(x)
CallDispose ==
  /\ Bound
  /\ disposed < MaxDispose
  /\ x' = Dispose(bundle, x)
  /\ disposed' = disposed + 1
  /\ result' = [op |-> "Dispose", raised |-> FALSE]
  /\ UNCHANGED <<pair, bundle, trackerVars>>

\* x = TypeTraits::ConvertToTrackedType(s); a throw leaves x unassigned
CallConvertToTrackedType ==
  /\ Bound
  /\ \E s \in ArgValues(ConvertArgType(bundle, pair.S, pair.T)) :
       LET r == ConvertToTrackedType(bundle, s)
       IN  /\ result' = [op |-> "ConvertToTrackedType", raised |-> r.raised,
                         arg |-> s, val |-> r.val]
           /\ IF r.raised
              THEN UNCHANGED <<x, disposed>>
              ELSE x' = r.val /\ disposed' = 0
  /\ UNCHANGED <<pair, bundle, trackerVars>>

-----------------------------------------------------------------------------
(* The tracker that drives the three callbacks for one service reference.  *)
(* AddingService is implemented by the integrator: its return value is any *)
(* value of TrackedReturnType.                                             *)

\* customizer->AddingService(reference); the tracker keeps the object when
\* TypeTraits::IsValid accepts it
AddingService ==
  /\ Bound
  /\ status = "Untracked"
  /\ lastEvent.n < MaxEvents
  /\ \E v \in ArgValues(TrackedReturnType(bundle, pair.T)) :
       /\ lastEvent' = [n |-> lastEvent.n + 1, ev |-> "AddingService",
                        val |-> v]
       /\ IF IsValid(bundle, pair.T, v)
          THEN /\ status' = "Tracked"
               /\ tracked' = v
               /\ accepted' = accepted + 1
          ELSE UNCHANGED <<status, tracked, accepted>>
  /\ UNCHANGED <<pair, bundle, bundleVars, removed, removedArg>>

\* customizer->ModifiedService(reference, tracked object)
ModifiedService ==
  /\ Bound
  /\ status = "Tracked"
  /\ lastEvent.n < MaxEvents
  /\ lastEvent' = [n |-> lastEvent.n + 1, ev |-> "ModifiedService",
                   val |-> tracked]
  /\ UNCHANGED <<pair, bundle, bundleVars, status, tracked, accepted, removed,
                 removedArg>>

\* customizer->RemovedService(reference, tracked object)
RemovedService ==
  /\ Bound
  /\ status = "Tracked"
  /\ lastEvent.n < MaxEvents
  /\ lastEvent' = [n |-> lastEvent.n + 1, ev |-> "RemovedService",
                   val |-> tracked]
  /\ removedArg' = tracked
  /\ removed' = removed + 1
  /\ status' = "Untracked"
  /\ tracked' = "none"
  /\ UNCHANGED <<pair, bundle, bundleVars, accepted>>

NextTracker ==
  \/ Instantiate
  \/ AddingService
  \/ ModifiedService
  \/ RemovedService

TrackerSpec == Init /\ [][NextTracker]_vars

Next ==
  \/ Instantiate
  \/ CallIsValid
  \/ CallDefaultValue
  \/ CallDispose
  \/ CallConvertToTrackedType

Spec == Init /\ [][Next]_vars

-----------------------------------------------------------------------------
(* Properties *)

Resolved == bundle # "unresolved"

VoidPtr == Ptr("void")

\* C1: in every bundle, and in (c) for every T its condition admits,
\* IsValid(DefaultValue()) is false.
C1_DefaultValueIsInvalid ==
  (result.op = "IsValid" /\ result.arg = DefaultValue(bundle, pair.T))
    => result.val = FALSE

\* C2: in every variant, after Dispose(t) the value t equals DefaultValue()
\* of the bundle and IsValid(t) is false.
C2_DisposeYieldsDefault ==
  disposed >= 1
    => (x = DefaultValue(bundle, pair.T) /\ ~IsValid(bundle, pair.T, x))

\* C3: ConvertToTrackedType of variants (a) and (c) raises on every call
\* and returns nothing; no other TypeTraits operation ever raises.
C3_OnlyDefaultConversionRaises ==
  /\ (result.op = "ConvertToTrackedType" /\ bundle \in {"a", "c"})
       => (result.raised /\ result.val = Raise.val)
  /\ (result.op # "none"
      /\ ~(result.op = "ConvertToTrackedType" /\ bundle \in {"a", "c"}))
       => ~result.raised

C3_Witness ==
  /\ bundle = "c"
  /\ result.op = "ConvertToTrackedType"
  /\ result.raised

\* The four supported shapes of (S, T), as the data model words them: a
\* handle to a type other than S, a handle to S, a default-constructible
\* value type with a conversion to bool (bool, SharedPtr and Stream are the
\* ones of the universe), and the untyped pair.
ShapeA(S, T) == T.kind = "ptr" /\ T.to # S
ShapeB(S, T) == T.kind = "ptr" /\ T.to = S
ShapeC(S, T) ==
  /\ T.kind = "val"
  /\ T.to \in {"bool", "SharedPtr", "Stream"}
ShapeD(S, T) == S = "void" /\ T = VoidPtr
Supported(S, T) ==
  ShapeA(S, T) \/ ShapeB(S, T) \/ ShapeC(S, T) \/ ShapeD(S, T)

\* C4: every (S, T) binds to zero or one bundle (the instantiation is never
\* ambiguous), every pair of a supported shape binds to exactly one of the
\* four bundles, and instantiating the pair again gives the same bundle.
C4_ZeroOrOneBundle ==
  /\ [](/\ bundle \in Variants \cup {"primary", "unresolved"}
        /\ (Resolved /\ Supported(pair.S, pair.T)) => bundle \in Variants
        /\ bundle \in Variants => bundle \in Matching(pair.S, pair.T))
  /\ [][Resolved => bundle' = bundle]_vars

C4_Witness ==
  /\ bundle = "b"
  /\ pair = [S |-> "Foo", T |-> Ptr("Foo")]
  /\ result.op = "IsValid"

\* C5 as stated: for every (S, T), (void, void*) included, at most one
\* variant's selection condition holds.
C5_ConditionsDisjoint ==
  Resolved => Cardinality(Matching(pair.S, pair.T)) <= 1

\* C5 amended: the conditions of (a), (b) and (c) are pairwise disjoint and
\* (d) is disjoint from (a) and (c); the conditions of (b) and (d) both hold
\* for exactly (void, void*), and there the explicit specialization (d) is
\* the bundle bound.
C5_DisjointButVoidPtr ==
  Resolved =>
    LET m == Matching(pair.S, pair.T)
    IN  \/ /\ Cardinality(m) <= 1
           /\ ~(pair.S = "void" /\ pair.T = VoidPtr)
           /\ m # {} => bundle \in m
        \/ /\ m = {"b", "d"}
           /\ pair.S = "void" /\ pair.T = VoidPtr
           /\ bundle = "d"

C5_Witness ==
  /\ bundle = "d"
  /\ Matching(pair.S, pair.T) = {"b", "d"}

\* C6: a pair that matches none of the four variants ends resolution in an
\* error; it is never bound to a fallback definition.
C6_NoMatchIsAnError ==
  (Resolved /\ Matching(pair.S, pair.T) = {}) => bundle = "ill-formed"

\* A value the bundle words as "do not track": the null handle, a value
\* that converts to false, the empty map
Sentinel(b, T, v) ==
  CASE b \in {"a", "b"} -> v = NullHandle
    [] b = "c" -> ~ToBool(T, v)
    [] b = "d" -> v = EmptyMap

C8_IdentityConversion ==
  (result.op = "ConvertToTrackedType" /\ bundle \in {"b", "d"}) =>
    /\ ~result.raised
    /\ result.val = result.arg
    /\ x = result.arg
    /\ bundle = "b" =>
         (result.arg # NullHandle => IsValid(bundle, pair.T, result.val))
    /\ bundle = "d" =>
         (IsValid(bundle, pair.T, result.val) <=> result.arg # EmptyMap)

C8_Witness ==
  /\ bundle = "d"
  /\ result.op = "ConvertToTrackedType"
  /\ Cardinality(DOMAIN result.arg) = 2
  /\ x = result.arg

\* C9: Dispose is idempotent in every variant: every Dispose(t) leaves t
\* equal to DefaultValue(), and a Dispose(t) after a Dispose(t) leaves t
\* unchanged.
C9_DisposeIdempotent ==
  [][disposed' > disposed =>
       /\ x' = DefaultValue(bundle, pair.T)
       /\ disposed >= 1 => x' = x]_vars

\* C10: with S = void and T a pointer other than void* the bundle is (a):
\* TrackedReturnType is T, the absent value is the null handle, and
\* ConvertToTrackedType takes the InterfaceMap and always raises.  Only
\* (void, void*) binds (d).
C10_VoidWithOtherPointer ==
  /\ (Resolved /\ pair.S = "void" /\ is_pointer(pair.T) /\ pair.T # VoidPtr)
       => /\ bundle = "a"
          /\ TrackedReturnType(bundle, pair.T) = pair.T
          /\ DefaultValue(bundle, pair.T) = NullHandle
          /\ ConvertArgType(bundle, pair.S, pair.T) = Val("InterfaceMap")
          /\ result.op = "DefaultValue" => result.val = NullHandle
          /\ result.op = "ConvertToTrackedType" =>
               (result.raised /\ DOMAIN result.arg \subseteq InterfaceIds)
  /\ bundle = "d" => (pair.S = "void" /\ pair.T = VoidPtr)

C10_Witness ==
  /\ pair = [S |-> "void", T |-> Ptr("Foo")]
  /\ bundle = "a"
  /\ result.op = "ConvertToTrackedType"
  /\ result.raised
  /\ result.arg # EmptyMap

====
